---------------------------- MODULE Spec2Model ----------------------------
(***************************************************************************)
(* zhon.pinyin: the syllable, word and sentence patterns of                *)
(* src/zhon/pinyin.py, and the matching of a text against them.            *)
(*                                                                         *)
(* A text is a sequence of characters; a character is a one-character      *)
(* string, except the non-ASCII ones, which are named:                     *)
(*   "a1" "a2" "a3" "a4"  a with macron, acute, caron, grave (tones 1-4),  *)
(*   likewise e, i, o, u;  "uml" is u-diaeresis, "uml1".."uml4" its tones; *)
(*   "middot" is U+00B7, "hyphpt" is U+2027, "backtick" is U+0060.         *)
(*                                                                         *)
(* A pattern is the syntax tree of the regular expression the source       *)
(* builds by string interpolation.  Ends(r, p) is the list of offsets at   *)
(* which a backtracking matcher can leave r when started at offset p, in   *)
(* the order in which it tries them: its head is the end of the match it   *)
(* reports.                                                                *)
(***************************************************************************)
EXTENDS Integers, Sequences, FiniteSets, TLC

VARIABLES text,     \* the string the caller matches against
          pattern,  \* the pattern last applied: "syllable", "word", "sentence"
          m         \* the match it returned: [start, end] offsets, or None

vars == <<text, pattern, m>>

-----------------------------------------------------------------------------
(* Pattern syntax trees.                                                   *)

Cls(S)      == [t |-> "cls", s |-> S]            \* [...] or one literal
Cat(rs)     == [t |-> "cat", rs |-> rs]          \* r1 r2 ...
Alt(rs)     == [t |-> "alt", rs |-> rs]          \* r1|r2|...
Opt(r)      == [t |-> "opt", r |-> r]            \* r?
Star(r)     == [t |-> "star", r |-> r]           \* r*
Plus(r)     == [t |-> "plus", r |-> r]           \* r+
Ahead(r)    == [t |-> "ahead", r |-> r]          \* (?=r)
NotAhead(r) == [t |-> "notahead", r |-> r]       \* (?!r)
Lit(c)      == Cls({c})

-----------------------------------------------------------------------------
(* The matcher.                                                            *)

Range(s) == {s[i] : i \in 1..Len(s)}

\* s followed by the elements of t that are in neither, in t's order.
RECURSIVE Merge(_, _)
Merge(s, t) ==
    IF t = <<>> THEN s
    ELSE IF s = <<>> /\ Len(t) = 1 THEN t
    ELSE Merge(IF \E k \in 1..Len(s) : s[k] = Head(t) THEN s
               ELSE Append(s, Head(t)), Tail(t))

RECURSIVE Ends(_, _)
RECURSIVE EndsFrom(_, _, _)
RECURSIVE SeqEnds(_, _, _)
RECURSIVE AltEnds(_, _, _, _)
RECURSIVE StarEnds(_, _, _)
RECURSIVE StarEach(_, _, _)

\* The ends of r started at each offset of ps in turn.
EndsFrom(r, ps, acc) ==
    IF ps = <<>> THEN acc
    ELSE EndsFrom(r, Tail(ps), Merge(acc, Ends(r, Head(ps))))

\* r_i r_(i+1) ... started at each offset of ps.
SeqEnds(rs, i, ps) ==
    IF i > Len(rs) \/ ps = <<>> THEN ps
    ELSE IF Len(ps) = 1 THEN SeqEnds(rs, i + 1, Ends(rs[i], ps[1]))
    ELSE SeqEnds(rs, i + 1, EndsFrom(rs[i], ps, <<>>))

\* r_lo | ... | r_hi at p: an earlier alternative's ends come first.  (The
\* list is halved rather than walked, which keeps the evaluation shallow.)
AltEnds(rs, lo, hi, p) ==
    IF lo = hi THEN Ends(rs[lo], p)
    ELSE LET mid == (lo + hi) \div 2
         IN  Merge(AltEnds(rs, lo, mid, p), AltEnds(rs, mid + 1, hi, p))

\* r* at p, greedy: one more r first, the empty repetition last.  An offset
\* already in acc has had all its continuations listed.
StarEnds(r, p, acc) ==
    IF \E k \in 1..Len(acc) : acc[k] = p THEN acc
    ELSE Append(StarEach(r, SelectSeq(Ends(r, p), LAMBDA e : e > p), acc), p)

StarEach(r, es, acc) ==
    IF es = <<>> THEN acc
    ELSE StarEach(r, Tail(es), StarEnds(r, Head(es), acc))

Ends(r, p) ==
    CASE r.t = "cls"      -> IF p < Len(text) /\ text[p + 1] \in r.s
                             THEN <<p + 1>> ELSE <<>>
      [] r.t = "cat"      -> SeqEnds(r.rs, 1, <<p>>)
      [] r.t = "alt"      -> AltEnds(r.rs, 1, Len(r.rs), p)
      [] r.t = "opt"      -> Merge(Ends(r.r, p), <<p>>)
      [] r.t = "star"     -> StarEnds(r.r, p, <<>>)
      [] r.t = "plus"     -> StarEach(r.r, Ends(r.r, p), <<>>)
      [] r.t = "ahead"    -> IF Ends(r.r, p) # <<>> THEN <<p>> ELSE <<>>
      [] r.t = "notahead" -> IF Ends(r.r, p) = <<>> THEN <<p>> ELSE <<>>

None == [start |-> -1, end |-> -1]

\* re.compile(r).match(text, p)
Match(r, p) ==
    LET es == Ends(r, p)
    IN  IF es = <<>> THEN None ELSE [start |-> p, end |-> Head(es)]

\* re.compile(r).search(text, p): the match at the first offset from p on
\* that has one.
RECURSIVE Search(_, _)
Search(r, p) ==
    IF p > Len(text) THEN None
    ELSE LET found == Match(r, p)
         IN  IF found # None THEN found ELSE Search(r, p + 1)

-----------------------------------------------------------------------------
(* The character classes and patterns of src/zhon/pinyin.py.               *)

non_stops == <<"\"", "#", "$", "%", "&", "'", "(", ")", "*", "+", ",", "-",
               "/", ":", ";", "<", "=", ">", "@", "[", "\\", "]", "^", "_",
               "backtick", "{", "|", "}", "~">>
stops == <<".", "!", "?">>

_a == {"a", "a1", "a4", "a2", "a3"}
\* Mutant of _e: the grave-accented e is missing from the class.
e_without_grave == {"e", "e1", "e2", "e3"}
_e == {"e", "e1", "e2", "e3", "e4"}
_i == {"i", "i1", "i2", "i3", "i4"}
_o == {"o", "o1", "o2", "o3", "o4"}
_u == {"u", "u1", "u2", "u3", "u4"}
_v == {"v", "uml", "uml1", "uml2", "uml3", "uml4"}

\* Mutant of _consonant_end: only the unmarked vowels are looked for.
consonant_end_plain_vowels ==
    NotAhead(Cls({"a", "e", "i", "o", "u", "v"}))

\* (?![aeiouv...]|u:)
_consonant_end ==
    NotAhead(Alt(<<Cls(_a \cup _e \cup _i \cup _o \cup _u \cup _v),
                   Cat(<<Lit("u"), Lit(":")>>)>>))

\* Pieces of the initials that recur in the alternatives.
\* Mutant of zcs_h: the h is optional, as in zcs_hOpt.
zcs_h_optional == Cat(<<Cls({"z", "c", "s"}), Opt(Lit("h"))>>)
zcs_h    == Cat(<<Cls({"z", "c", "s"}), Lit("h")>>)          \* [zcs]h
zcs_hOpt == Cat(<<Cls({"z", "c", "s"}), Opt(Lit("h"))>>)     \* [zcs]h?
gkh      == Cls({"g", "k", "h"})                             \* [gkh]
ng       == Cat(<<Lit("n"), Lit("g")>>)

\* The alternatives of the syllable pattern, in the source's order.
syllableAlternatives == <<
  (* 51 *) Cat(<<Alt(<<zcs_h, gkh>>), Lit("u"), Cls(_a), ng, _consonant_end>>),
  (* 52 *) Cat(<<Cls({"j", "q", "x"}), Lit("i"), Cls(_o), ng, _consonant_end>>),
  (* 53 *) Cat(<<Cls({"n", "l", "j", "q", "x"}), Lit("i"), Cls(_a), ng,
                 _consonant_end>>),
  (* 54 *) Cat(<<Alt(<<zcs_hOpt,
                       Cls({"d", "t", "n", "l", "g", "k", "h", "r", "j", "q",
                            "x", "y"})>>),
                 Lit("u"), Cls(_a), Lit("n"), _consonant_end>>),
  (* 55 *) Cat(<<Alt(<<zcs_h, gkh>>), Lit("u"), Cls(_a), Lit("i")>>),
  (* 56 *) Cat(<<Alt(<<Cat(<<Cls({"z", "c"}), Opt(Lit("h"))>>),
                       Cls({"r", "d", "t", "n", "l", "g", "k", "h", "s",
                            "y"})>>),
                 Cls(_o), ng, _consonant_end>>),
  (* 57 *) Cat(<<Opt(Alt(<<zcs_hOpt,
                           Cls({"r", "b", "p", "m", "f", "d", "t", "n", "l",
                                "g", "k", "h", "w"})>>)),
                 Cls(_e), ng, _consonant_end>>),
  (* 58 *) Cat(<<Opt(Alt(<<zcs_hOpt,
                           Cls({"r", "b", "p", "m", "f", "d", "t", "n", "l",
                                "g", "k", "h", "w", "y"})>>)),
                 Cls(_a), ng, _consonant_end>>),
  (* 59 *) Cat(<<Cls({"b", "p", "m", "d", "t", "n", "l", "j", "q", "x", "y"}),
                 Cls(_i), ng, _consonant_end>>),
  (* 60 *) Cat(<<Cls({"b", "p", "m", "d", "t", "n", "l", "j", "q", "x"}),
                 Lit("i"), Cls(_a), Lit("n"), _consonant_end>>),
  (* 61 *) Cat(<<Cls({"b", "p", "m", "d", "t", "n", "l", "j", "q", "x"}),
                 Lit("i"), Cls(_a), Lit("o")>>),
  (* 62 *) Cat(<<Cls({"n", "l"}),
                 Alt(<<Lit("v"), Cat(<<Lit("u"), Lit(":")>>), Lit("uml")>>),
                 Cls(_e)>>),
  (* 63 *) Cat(<<Cls({"n", "l"}),
                 Alt(<<Cls(_v), Cat(<<Lit("u"), Lit(":")>>)>>)>>),
  (* 64 *) Cat(<<Cls({"j", "q", "x", "y"}), Lit("u"), Cls(_e)>>),
  (* 65 *) Cat(<<Cls({"b", "p", "m", "n", "l", "j", "q", "x", "y"}),
                 Cls(_i), Lit("n"), _consonant_end>>),
  (* 66 *) Cat(<<Cls({"m", "d", "n", "l", "j", "q", "x"}), Lit("i"),
                 Cls(_u)>>),
  (* 67 *) Cat(<<Cls({"b", "p", "m", "d", "t", "n", "l", "j", "q", "x"}),
                 Lit("i"), Cls(_e)>>),
  (* 68 *) Cat(<<Cls({"d", "l", "j", "q", "x"}), Lit("i"), Cls(_a)>>),
  (* 69 *) Cat(<<Alt(<<zcs_hOpt,
                       Cls({"r", "d", "t", "n", "l", "g", "k", "h", "x", "q",
                            "j", "y"})>>),
                 Cls(_u), Lit("n"), _consonant_end>>),
  (* 70 *) Cat(<<Alt(<<zcs_hOpt, Cls({"r", "d", "t", "g", "k", "h"})>>),
                 Lit("u"), Cls(_i)>>),
  (* 71 *) Cat(<<Alt(<<zcs_hOpt,
                       Cls({"r", "d", "t", "n", "l", "g", "k", "h"})>>),
                 Lit("u"), Cls(_o)>>),
  (* 72 *) Cat(<<Alt(<<zcs_h, Cls({"r", "g", "k", "h"})>>), Lit("u"),
                 Cls(_a)>>),
  (* 73 *) Cat(<<Opt(Alt(<<zcs_hOpt,
                           Cls({"r", "b", "p", "m", "f", "d", "n", "g", "k",
                                "h", "w"})>>)),
                 Cls(_e), Lit("n"), _consonant_end>>),
  (* 74 *) Cat(<<Opt(Alt(<<zcs_hOpt,
                           Cls({"r", "b", "p", "m", "f", "d", "t", "n", "l",
                                "g", "k", "h", "w", "y"})>>)),
                 Cls(_a), Lit("n"), _consonant_end>>),
  (* 75 *) Cat(<<Opt(Alt(<<zcs_hOpt,
                           Cls({"r", "p", "m", "f", "d", "t", "n", "l", "g",
                                "k", "h", "y"})>>)),
                 Cls(_o), Lit("u")>>),
  (* 76 *) Cat(<<Opt(Alt(<<zcs_hOpt,
                           Cls({"r", "b", "p", "m", "d", "t", "n", "l", "g",
                                "k", "h", "y"})>>)),
                 Cls(_a), Lit("o")>>),
  (* 77 *) Cat(<<Opt(Alt(<<Cat(<<Cls({"z", "s"}), Lit("h")>>),
                           Cls({"b", "p", "m", "f", "d", "t", "n", "l", "g",
                                "k", "h", "w", "z"})>>)),
                 Cls(_e), Lit("i")>>),
  (* 78 *) Cat(<<Opt(Alt(<<zcs_hOpt,
                           Cls({"b", "p", "m", "d", "t", "n", "l", "g", "k",
                                "h", "w"})>>)),
                 Cls(_a), Lit("i")>>),
  (* 79 *) Cat(<<Alt(<<zcs_hOpt,
                       Cls({"r", "j", "q", "x", "y", "b", "p", "m", "d", "t",
                            "n", "l"})>>),
                 Cls(_i)>>),
  (* 80 *) Cat(<<Alt(<<zcs_hOpt,
                       Cls({"r", "w", "b", "p", "m", "f", "d", "t", "n", "l",
                            "g", "k", "h", "j", "q", "x", "y"})>>),
                 Cls(_u)>>),
  (* 81 *) Cat(<<Opt(Alt(<<zcs_hOpt,
                           Cls({"r", "m", "d", "t", "n", "l", "g", "k", "h",
                                "y"})>>)),
                 Cls(_e)>>),
  (* 82 *) Cat(<<Opt(Cls({"b", "p", "m", "f", "w", "y", "l"})), Cls(_o)>>),
  (* 83 *) Cat(<<Opt(Alt(<<zcs_h,
                           Cls({"b", "p", "m", "f", "d", "t", "n", "l", "g",
                                "k", "h", "z", "c", "s", "w", "y"})>>)),
                 Cls(_a)>>)
>>

\* (?:r(?!...))?[0-5]? : the erhua suffix and the tone number.
syllableSuffix ==
    <<Opt(Cat(<<Lit("r"), _consonant_end>>)),
      Opt(Cls({"0", "1", "2", "3", "4", "5"}))>>

\* Mutant of syllable: the alternatives are tried shortest final first.
syllable_shortest_first ==
    Cat(<<Opt(Alt(<<Lit("middot"), Lit("hyphpt")>>)),
          Alt([k \in DOMAIN syllableAlternatives |->
                  syllableAlternatives[Len(syllableAlternatives) + 1 - k]])>>
        \o syllableSuffix)

\* (?:\u00B7|\u2027)?(?: alternatives )(?:r(?!...))?[0-5]?
syllable ==
    Cat(<<Opt(Alt(<<Lit("middot"), Lit("hyphpt")>>)),
          Alt(syllableAlternatives)>> \o syllableSuffix)

\* Mutant of word: a separator is taken without looking ahead.
word_without_lookahead ==
    Plus(Cat(<<syllable,
               Opt(Alt(<<Lit("-"), Lit("'")>>)),
               Star(Cls({"0", "1", "2", "3", "4", "5", "6", "7", "8",
                         "9"}))>>))

\* (?:syl(?:-(?=syl)|'(?=[aeo])(?=syl))?[0-9]*)+
word ==
    Plus(Cat(<<syllable,
               Opt(Alt(<<Cat(<<Lit("-"), Ahead(syllable)>>),
                         Cat(<<Lit("'"), Ahead(Cls(_a \cup _e \cup _o)),
                               Ahead(syllable)>>)>>)),
               Star(Cls({"0", "1", "2", "3", "4", "5", "6", "7", "8",
                         "9"}))>>))

\* Printable ASCII in code order (32..126): what a range lo-hi of a
\* character class spans.
Ascii == <<" ", "!", "\"", "#", "$", "%", "&", "'", "(", ")", "*", "+", ",",
           "-", ".", "/", "0", "1", "2", "3", "4", "5", "6", "7", "8", "9",
           ":", ";", "<", "=", ">", "?", "@", "A", "B", "C", "D", "E", "F",
           "G", "H", "I", "J", "K", "L", "M", "N", "O", "P", "Q", "R", "S",
           "T", "U", "V", "W", "X", "Y", "Z", "[", "\\", "]", "^", "_", "backtick",
           "a", "b", "c", "d", "e", "f", "g", "h", "i", "j", "k", "l", "m",
           "n", "o", "p", "q", "r", "s", "t", "u", "v", "w", "x", "y", "z",
           "{", "|", "}", "~">>

Ord(c) == CHOOSE k \in 1..Len(Ascii) : Ascii[k] = c

Whitespace == {" ", "\t", "\n", "\r", "\f"}               \* \s

\* The set a bracket expression [cs] denotes, as the regular-expression
\* compiler reads its body cs from index i: a backslash escapes the next
\* character (\s is the whitespace category), and an item followed by "-"
\* and another item is the range between them.
RECURSIVE ClassSet(_, _)
ClassSet(cs, i) ==
    IF i > Len(cs) THEN {}
    ELSE LET esc     == cs[i] = "\\" /\ i < Len(cs)
             lo      == IF esc THEN cs[i + 1] ELSE cs[i]
             isCat   == esc /\ lo = "s"
             j       == IF esc THEN i + 2 ELSE i + 1
             isRange == ~isCat /\ j < Len(cs) /\ cs[j] = "-"
             hesc    == cs[j + 1] = "\\" /\ j + 1 < Len(cs)
             hi      == IF hesc THEN cs[j + 2] ELSE cs[j + 1]
             next    == IF ~isRange THEN j ELSE IF hesc THEN j + 3 ELSE j + 2
             here    == IF isCat THEN Whitespace
                        ELSE IF isRange
                             THEN {Ascii[k] : k \in Ord(lo)..Ord(hi)}
                             ELSE {lo}
         IN  here \cup ClassSet(cs, next)

\* [%(non_stops)s\s] : non_stops interpolated into a bracket expression.
sentenceBodyClass == ClassSet(non_stops \o <<"\\", "s">>, 1)

\* ['"\]\}\)]
sentenceCloseClass ==
    ClassSet(<<"'", "\"", "\\", "]", "\\", "}", "\\", ")">>, 1)

\* Mutant of sentence: at most one closing character is taken.
sentence_one_closer ==
    Cat(<<Plus(Alt(<<word, Cls(sentenceBodyClass)>>)),
          Cls({".", "!", "?"}),
          Opt(Cls(sentenceCloseClass))>>)

\* (?:word|[non_stops\s])+[.!?]['"\]\}\)]*
sentence ==
    Cat(<<Plus(Alt(<<word, Cls(sentenceBodyClass)>>)),
          Cls({".", "!", "?"}),
          Star(Cls(sentenceCloseClass))>>)

sent == sentence
syl  == syllable

-----------------------------------------------------------------------------
(* Applying the patterns to a text.                                        *)

\* re.match(syllable, text)
SyllableMatch ==
    /\ pattern' = "syllable"
    /\ m' = Match(syllable, 0)
    /\ UNCHANGED text

\* re.match(word, text)
WordMatch ==
    /\ pattern' = "word"
    /\ m' = Match(word, 0)
    /\ UNCHANGED text

\* re.match(sentence, text)
SentenceMatch ==
    /\ pattern' = "sentence"
    /\ m' = Match(sentence, 0)
    /\ UNCHANGED text

\* re.search(sentence, text)
SentenceSearch ==
    /\ pattern' = "sentence"
    /\ m' = Search(sentence, 0)
    /\ UNCHANGED text

-----------------------------------------------------------------------------
(* The reference table of Mandarin syllables: which initials are attested  *)
(* before which final.  "none" is the empty initial; y and w are written   *)
(* as initials, as the patterns do.                                        *)

Initial ==
    [none |-> <<>>, b |-> <<"b">>, p |-> <<"p">>, m |-> <<"m">>,
     f |-> <<"f">>, d |-> <<"d">>, t |-> <<"t">>, n |-> <<"n">>,
     l |-> <<"l">>, g |-> <<"g">>, k |-> <<"k">>, h |-> <<"h">>,
     j |-> <<"j">>, q |-> <<"q">>, x |-> <<"x">>,
     zh |-> <<"z", "h">>, ch |-> <<"c", "h">>, sh |-> <<"s", "h">>,
     r |-> <<"r">>, z |-> <<"z">>, c |-> <<"c">>, s |-> <<"s">>,
     y |-> <<"y">>, w |-> <<"w">>]

Final ==
    [a |-> <<"a">>, o |-> <<"o">>, e |-> <<"e">>, er |-> <<"e", "r">>,
     ai |-> <<"a", "i">>, ei |-> <<"e", "i">>, ao |-> <<"a", "o">>,
     ou |-> <<"o", "u">>, an |-> <<"a", "n">>, en |-> <<"e", "n">>,
     ang |-> <<"a", "n", "g">>, eng |-> <<"e", "n", "g">>,
     ong |-> <<"o", "n", "g">>,
     i |-> <<"i">>, ia |-> <<"i", "a">>, ie |-> <<"i", "e">>,
     iao |-> <<"i", "a", "o">>, iu |-> <<"i", "u">>,
     ian |-> <<"i", "a", "n">>, in |-> <<"i", "n">>,
     iang |-> <<"i", "a", "n", "g">>, ing |-> <<"i", "n", "g">>,
     iong |-> <<"i", "o", "n", "g">>,
     u |-> <<"u">>, ua |-> <<"u", "a">>, uo |-> <<"u", "o">>,
     uai |-> <<"u", "a", "i">>, ui |-> <<"u", "i">>,
     uan |-> <<"u", "a", "n">>, un |-> <<"u", "n">>,
     uang |-> <<"u", "a", "n", "g">>, ue |-> <<"u", "e">>,
     uml |-> <<"uml">>, umle |-> <<"uml", "e">>]

Attested ==
    [a    |-> {"none", "b", "p", "m", "f", "d", "t", "n", "l", "g", "k", "h",
               "zh", "ch", "sh", "z", "c", "s", "y", "w"},
     o    |-> {"none", "b", "p", "m", "f", "l", "y", "w"},
     e    |-> {"none", "m", "d", "t", "n", "l", "g", "k", "h", "zh", "ch",
               "sh", "r", "z", "c", "s", "y"},
     er   |-> {"none"},
     ai   |-> {"none", "b", "p", "m", "d", "t", "n", "l", "g", "k", "h", "zh",
               "ch", "sh", "z", "c", "s", "w"},
     ei   |-> {"none", "b", "p", "m", "f", "d", "t", "n", "l", "g", "k", "h",
               "zh", "sh", "z", "w"},
     ao   |-> {"none", "b", "p", "m", "d", "t", "n", "l", "g", "k", "h", "zh",
               "ch", "sh", "r", "z", "c", "s", "y"},
     ou   |-> {"none", "p", "m", "f", "d", "t", "n", "l", "g", "k", "h", "zh",
               "ch", "sh", "r", "z", "c", "s", "y"},
     an   |-> {"none", "b", "p", "m", "f", "d", "t", "n", "l", "g", "k", "h",
               "zh", "ch", "sh", "r", "z", "c", "s", "y", "w"},
     en   |-> {"none", "b", "p", "m", "f", "d", "n", "g", "k", "h", "zh",
               "ch", "sh", "r", "z", "c", "s", "w"},
     ang  |-> {"none", "b", "p", "m", "f", "d", "t", "n", "l", "g", "k", "h",
               "zh", "ch", "sh", "r", "z", "c", "s", "y", "w"},
     eng  |-> {"none", "b", "p", "m", "f", "d", "t", "n", "l", "g", "k", "h",
               "zh", "ch", "sh", "r", "z", "c", "s", "w"},
     ong  |-> {"d", "t", "n", "l", "g", "k", "h", "zh", "ch", "r", "z", "c",
               "s", "y"},
     i    |-> {"b", "p", "m", "d", "t", "n", "l", "j", "q", "x", "zh", "ch",
               "sh", "r", "z", "c", "s", "y"},
     ia   |-> {"d", "l", "j", "q", "x"},
     ie   |-> {"b", "p", "m", "d", "t", "n", "l", "j", "q", "x"},
     iao  |-> {"b", "p", "m", "d", "t", "n", "l", "j", "q", "x"},
     iu   |-> {"m", "d", "n", "l", "j", "q", "x"},
     ian  |-> {"b", "p", "m", "d", "t", "n", "l", "j", "q", "x"},
     in   |-> {"b", "p", "m", "n", "l", "j", "q", "x", "y"},
     iang |-> {"n", "l", "j", "q", "x"},
     ing  |-> {"b", "p", "m", "d", "t", "n", "l", "j", "q", "x", "y"},
     iong |-> {"j", "q", "x"},
     u    |-> {"b", "p", "m", "f", "d", "t", "n", "l", "g", "k", "h", "zh",
               "ch", "sh", "r", "z", "c", "s", "w", "j", "q", "x", "y"},
     ua   |-> {"g", "k", "h", "zh", "ch", "sh", "r"},
     uo   |-> {"d", "t", "n", "l", "g", "k", "h", "zh", "ch", "sh", "r", "z",
               "c", "s"},
     uai  |-> {"g", "k", "h", "zh", "ch", "sh"},
     ui   |-> {"d", "t", "g", "k", "h", "zh", "ch", "sh", "r", "z", "c", "s"},
     uan  |-> {"d", "t", "n", "l", "g", "k", "h", "zh", "ch", "sh", "r", "z",
               "c", "s", "j", "q", "x", "y"},
     un   |-> {"d", "t", "n", "l", "g", "k", "h", "zh", "ch", "sh", "r", "z",
               "c", "s", "j", "q", "x", "y"},
     uang |-> {"g", "k", "h", "zh", "ch", "sh"},
     ue   |-> {"j", "q", "x", "y"},
     uml  |-> {"n", "l"},
     umle |-> {"n", "l"}]

Initials == DOMAIN Initial
Finals   == DOMAIN Final

\* The tone marks of a vowel, tones 1 to 4.
ToneMark ==
    [a |-> <<"a1", "a2", "a3", "a4">>, e |-> <<"e1", "e2", "e3", "e4">>,
     i |-> <<"i1", "i2", "i3", "i4">>, o |-> <<"o1", "o2", "o3", "o4">>,
     u |-> <<"u1", "u2", "u3", "u4">>,
     uml |-> <<"uml1", "uml2", "uml3", "uml4">>]

Tones == {0} \cup DOMAIN ToneMark.a

\* The letter of a final that carries the tone mark: a or e if there is
\* one, else o, else the last vowel.
ToneAt(fin) ==
    LET at(S) == {k \in 1..Len(fin) : fin[k] \in S}
    IN  IF at({"a", "e"}) # {} THEN CHOOSE k \in at({"a", "e"}) : TRUE
        ELSE IF at({"o"}) # {} THEN CHOOSE k \in at({"o"}) : TRUE
        ELSE CHOOSE k \in at({"i", "u", "uml"}) :
                 \A j \in at({"i", "u", "uml"}) : j <= k

\* The spelling of initial + final in tone t (0: unmarked).
Spell(ini, fin, t) ==
    Initial[ini] \o
    [k \in 1..Len(Final[fin]) |->
        IF t # 0 /\ k = ToneAt(Final[fin]) THEN ToneMark[Final[fin][k]][t]
        ELSE Final[fin][k]]

ToneDigits == {"0", "1", "2", "3", "4", "5"}
NoneOrOne(S) == {<<>>} \cup {<<x>> : x \in S}

-----------------------------------------------------------------------------
(* The syllable pattern on the reference table.                            *)

\* Every table syllable in every tone, bare or with one tone digit.
TableTexts ==
    UNION {{Spell(i, f, t) \o d :
                i \in Attested[f], t \in Tones, d \in NoneOrOne(ToneDigits)} :
           f \in Finals}

InitTable == text \in TableTexts /\ pattern = "none" /\ m = None
NextTable == SyllableMatch
SpecTable == InitTable /\ [][NextTable]_vars

\* C4: every syllable of the attested table, plain or with its tone mark,
\* bare or followed by one tone digit 0-5, is matched whole by the syllable
\* pattern.  (SpecTable's texts are exactly these spellings.)
C4_TableSyllableMatchedWhole ==
    pattern = "syllable" => m = [start |-> 0, end |-> Len(text)]

C4_Witness ==
    /\ text = <<"z", "h", "u", "a3", "n", "g", "4">>
    /\ pattern = "syllable"
    /\ m.end = Len(text)

-----------------------------------------------------------------------------
(* The syllable pattern on the grid of all initials and finals, followed   *)
(* by a short tail.                                                        *)

MaxTail == 2

TailChars == {"a", "r", "1"}
Tails == UNION {[1..k -> TailChars] : k \in 0..MaxTail}

\* initial + final + tail, and interpunct + initial + final.
GridTexts ==
    {Initial[i] \o Final[f] \o tl : i \in Initials, f \in Finals, tl \in Tails}
        \cup {<<"middot">> \o Initial[i] \o Final[f] :
                  i \in Initials, f \in Finals}

InitSyllable == text \in GridTexts /\ pattern = "none" /\ m = None
NextSyllable == SyllableMatch
SpecSyllable == InitSyllable /\ [][NextSyllable]_vars

Max(S) == CHOOSE x \in S : \A y \in S : y <= x

\* One alternative of the syllable pattern with the suffix every
\* alternative shares.
syllableBranch ==
    [k \in DOMAIN syllableAlternatives |->
        Cat(<<syllableAlternatives[k]>> \o syllableSuffix)]

\* The offsets where some single alternative can end, started after the
\* optional leading interpunct.
BranchEnds ==
    LET starts == {0} \cup (IF text # <<>> /\ text[1] \in {"middot", "hyphpt"}
                            THEN {1} ELSE {})
    IN  UNION {Range(Ends(syllableBranch[k], p)) :
                   k \in DOMAIN syllableBranch, p \in starts}

\* C3: the syllable pattern returns the longest string that any one of its
\* alternatives (with the erhua r and the tone digit) accepts at the
\* position, and no match only when no alternative accepts anything.
C3_LongestAlternativeWins ==
    pattern = "syllable" =>
        IF BranchEnds = {} THEN m = None
        ELSE m = [start |-> 0, end |-> Max(BranchEnds)]

\* "zhuang": the alternatives for zhu, zhua and zhuan... also start here.
C3_Witness ==
    /\ text = <<"z", "h", "u", "a", "n", "g">>
    /\ pattern = "syllable"
    /\ m.end = Len(text)
    /\ Cardinality(BranchEnds) > 1

\* C5 as stated: an initial + final that the table does not attest is never
\* matched whole.
C5_UnattestedNeverWhole ==
    (pattern = "syllable" /\ m.end = Len(text)) =>
        \A f \in Finals, i \in Initials :
            text = Initial[i] \o Final[f] => i \in Attested[f]

\* C5, amended: an initial + final that the table does not attest is never
\* matched whole, except initial + "er" where initial + "e" is attested
\* (the syllable with the erhua suffix r); in particular "uang" is matched
\* only after zh ch sh g k h and "iang" only after j q x n l.
C5_UnattestedNeverWholeButErhua ==
    (pattern = "syllable" /\ m.end = Len(text)) =>
        \A f \in Finals, i \in Initials :
            text = Initial[i] \o Final[f] =>
                \/ i \in Attested[f]
                \/ f = "er" /\ i \in Attested.e

\* "miang": only the attested prefix "mian" is matched.
C5_Witness ==
    /\ text = <<"m", "i", "a", "n", "g">>
    /\ pattern = "syllable"
    /\ m = [start |-> 0, end |-> 4]

-----------------------------------------------------------------------------
(* The syllable pattern on a nasal-coda syllable followed by a vowel.      *)

PlainVowels == DOMAIN ToneMark \cup {"v"}
Vowels == PlainVowels \cup UNION {Range(ToneMark[c]) : c \in DOMAIN ToneMark}

NasalFinals == {f \in Finals : Final[f][Len(Final[f])] \in {"n", "g"}}
NasalSyllables ==
    UNION {{Initial[i] \o Final[f] : i \in Attested[f]} : f \in NasalFinals}

Following == {<<>>, <<"u", ":">>} \cup {<<v>> : v \in Vowels}
Between == {<<>>, <<"r">>, <<"'">>, <<"-">>}

CodaTexts == {s \o b \o v : s \in NasalSyllables, b \in Between, v \in Following}

InitCoda == text \in CodaTexts /\ pattern = "none" /\ m = None
NextCoda == SyllableMatch
SpecCoda == InitCoda /\ [][NextCoda]_vars

\* text = stem \o tl, with stem an attested syllable ending in n or ng.
NasalThen(tl) ==
    /\ Len(text) > Len(tl)
    /\ SubSeq(text, Len(text) - Len(tl) + 1, Len(text)) = tl
    /\ SubSeq(text, 1, Len(text) - Len(tl)) \in NasalSyllables

VowelAt(k) ==
    \/ k <= Len(text) /\ text[k] \in Vowels
    \/ k < Len(text) /\ text[k] = "u" /\ text[k + 1] = ":"

\* C2: a syllable match that ends in n, g or r is not directly followed by
\* a vowel or by "u:"; on an attested syllable s in -n or -ng followed by a
\* vowel v the match is shorter than s; and with a hyphen or apostrophe
\* between s and v the match is s.
C2_CodaNotBeforeVowel ==
    pattern = "syllable" =>
        /\ (m # None /\ text[m.end] \in {"n", "g", "r"}) => ~VowelAt(m.end + 1)
        /\ \A v \in Following \ {<<>>} :
              /\ NasalThen(v) => m.end < Len(text) - Len(v)
              /\ \A sep \in {"'", "-"} :
                    NasalThen(<<sep>> \o v) => m.end = Len(text) - Len(v) - 1

\* "fana": the match is "fa".
C2_Witness ==
    /\ text = <<"f", "a", "n", "a">>
    /\ pattern = "syllable"
    /\ m = [start |-> 0, end |-> 2]

-----------------------------------------------------------------------------
(* The word pattern on runs of syllables, separators and digits.           *)

MaxWordParts == 4

WordSyllables == {<<"x", "i">>, <<"a", "n">>, <<"g", "u", "o">>}
WordPieces == WordSyllables \cup {<<"-">>, <<"'">>, <<"1">>, <<"9">>}

\* The texts made of at most n pieces of P.
RECURSIVE Joined(_, _)
Joined(P, n) ==
    IF n = 0 THEN {<<>>}
    ELSE {<<>>} \cup {p \o w : p \in P, w \in Joined(P, n - 1)}

XiAn      == <<"X", "i", "'", "a", "n">>
TianAnmen == <<"T", "i", "a", "n", "'", "a", "n", "m", "e", "n">>
ZhongGuo  == <<"Z", "h", "o", "n", "g", "-", "g", "u", "o">>
WordExamples == {XiAn, TianAnmen, ZhongGuo}

WordTexts == (Joined(WordPieces, MaxWordParts) \ {<<>>}) \cup WordExamples

InitWord == text \in WordTexts /\ pattern = "none" /\ m = None
NextWord == WordMatch
SpecWord == InitWord /\ [][NextWord]_vars

AEO == {"a", "e", "o"} \cup Range(ToneMark.a) \cup Range(ToneMark.e)
           \cup Range(ToneMark.o)
Digits == {"0", "1", "2", "3", "4", "5", "6", "7", "8", "9"}

\* text from offset p on is a run of the syllables of WordSyllables, each
\* two joined by a hyphen, or by an apostrophe before a, e or o.
RECURSIVE IsJoinedRun(_)
IsJoinedRun(p) ==
    \E s \in WordSyllables :
        LET q == p + Len(s)
        IN  /\ q <= Len(text)
            /\ SubSeq(text, p + 1, q) = s
            /\ \/ q = Len(text)
               \/ /\ q < Len(text)
                  /\ \/ text[q + 1] = "-"
                     \/ text[q + 1] = "'" /\ q + 1 < Len(text)
                                          /\ text[q + 2] \in AEO
                  /\ IsJoinedRun(q + 1)

\* C6: a run of syllables joined by hyphens, or by apostrophes before a, e
\* or o, is matched by the word pattern as one word, from its first to its
\* last character; so are "Xi'an", "Tian'anmen" and "Zhong-guo".
C6_JoinedRunIsOneWord ==
    (pattern = "word" /\ (text \in WordExamples \/ IsJoinedRun(0))) =>
        m = [start |-> 0, end |-> Len(text)]

\* The syllable pattern matches at offset p and ends inside the match.
SyllableInside(p) ==
    LET es == Ends(syllable, p) IN es # <<>> /\ Head(es) <= m.end

\* C7: in a word match every hyphen is directly followed, inside the
\* match, by a syllable, and every apostrophe by a syllable that begins
\* with a, e or o; so the match never ends with a separator.
C7_SeparatorOnlyBeforeSyllable ==
    (pattern = "word" /\ m # None) =>
        \A k \in 1..m.end :
            /\ text[k] = "-" => k < m.end /\ SyllableInside(k)
            /\ text[k] = "'" => /\ k < m.end
                                /\ text[k + 1] \in AEO
                                /\ SyllableInside(k)

\* "xi'guo": the apostrophe before g is left out of the match, and
\* "xi'an-guo" is matched whole.
C7_Witness ==
    /\ pattern = "word"
    /\ \/ text = <<"x", "i", "'", "g", "u", "o">> /\ m.end = 2
       \/ text = <<"x", "i", "'", "a", "n", "-", "g", "u", "o">>
          /\ m.end = Len(text)

\* C10: every digit in a word match is a tone digit 0-5 standing after a
\* syllable or another digit, never after a separator.
C10_OnlyToneDigits ==
    (pattern = "word" /\ m # None) =>
        \A k \in 1..m.end :
            text[k] \in Digits =>
                /\ text[k] \in ToneDigits
                /\ k > 1
                /\ text[k - 1] \notin {"-", "'"}

-----------------------------------------------------------------------------
(* The sentence pattern on runs of words, punctuation and stops.           *)

MaxSentenceParts == 4

SentencePieces ==
    {<<"h", "a", "o">>, <<" ">>, <<".">>, <<"!">>, <<"\"">>}

\* ASCII punctuation: the printable characters that are not letters,
\* digits or the space.
Punctuation ==
    {Ascii[k] : k \in 1..Len(Ascii)} \
        ({" "} \cup Digits
         \cup {Ascii[k] : k \in Ord("A")..Ord("Z")}
         \cup {Ascii[k] : k \in Ord("a")..Ord("z")})

NiHaoShijie ==
    <<"N", "i3", " ", "h", "a3", "o", ",", " ", "s", "h", "i4", "j", "i",
      "e4", "!">>
TaShuo ==
    <<"T", "a1", " ", "s", "h", "u", "o1", ":", " ", "\"", "N", "i3", " ",
      "h", "a3", "o", ".", "\"">>

SentenceTexts ==
    (Joined(SentencePieces, MaxSentenceParts) \ {<<>>})
        \cup {<<c, "!">> : c \in Punctuation \cup Whitespace}
        \cup {NiHaoShijie, TaShuo}

InitSentence == text \in SentenceTexts /\ pattern = "none" /\ m = None
NextSentence == SentenceMatch \/ SentenceSearch
SpecSentence == InitSentence /\ [][NextSentence]_vars

Stops == Range(stops)
ClosingChars == {"'", "\"", "]", "}", ")"}

\* C1: a sentence match holds exactly one stop character, and what follows
\* the stop inside the match is closing quotes and brackets.
C1_OneStopPerSentence ==
    (pattern = "sentence" /\ m # None) =>
        \E j \in (m.start + 1)..m.end :
            /\ text[j] \in Stops
            /\ \A k \in (m.start + 1)..m.end :
                  /\ k # j => text[k] \notin Stops
                  /\ k > j => text[k] \in ClosingChars

\* C8: between words the sentence pattern accepts a single character
\* exactly when it is a character of non_stops or whitespace: a text of one
\* such character and a stop is a sentence, and no other punctuation
\* character (no stop in particular) can take its place.
C8_BodyCharIsNonStop ==
    (pattern = "sentence" /\ Len(text) = 2 /\ text[2] = "!"
        /\ text[1] \in Punctuation \cup Whitespace) =>
        (m = [start |-> 0, end |-> 2]
            <=> text[1] \in Range(non_stops) \cup Whitespace)

=============================================================================
